---- MODULE Spec2Model ----
(***************************************************************************)
(* A model of drone-provenance's exec command (pkg/drone): the sequence    *)
(* counter, the step selection phases of exec, the stage step roster, the  *)
(* provenance materials, and the JSON file log streamer.                    *)
(*                                                                         *)
(* Four specifications share the variables:                                *)
(*   SpecSeq  concurrent callers of sequence.next / sequence.curr          *)
(*   Spec     one run of exec, from the compiled step list to the end      *)
(*   SpecLog  a jSONFileStreamer, its streams and their writes             *)
(*   SpecProvenance  runs of exec on pipeline files at different paths     *)
(***************************************************************************)
EXTENDS Naturals, Sequences, FiniteSets

VARIABLES
    \* ---- sequence (exec.go 483-504) ----
    callers,     \* the number N of goroutines that call next()
    mu,          \* sync.Mutex: 0 when unlocked, else the goroutine holding it
    value,       \* sequence.value
    cpc,         \* each goroutine's position in next() / curr()
    cret,        \* each goroutine's local i (0: not yet assigned)
    \* ---- exec (exec.go 145-410) ----
    pc,          \* exec's position
    steps,       \* spec.Steps: the compiled steps, mutated in place
    compiled,    \* history: spec.Steps as the compiler returned them
    prev,        \* history: spec.Steps before the selection phase last run
    Include,     \* commy.Include
    Exclude,     \* commy.Exclude
    resumeAt,    \* cliContext.String("resume-at")
    stageSteps,  \* commy.Stage.Steps
    mat,         \* the materials of the statement (<<>> until assembled)
    lookups,     \* history: whether each step's crane.Digest call succeeded
    execErr,     \* whether Execer.Exec returned an error
    status,      \* state.Stage.Status
    exitCode,    \* <<>> while the process runs, then <<its exit code>>
    source,      \* commy.Source: the pipeline file's path, as its elements
    assembled,   \* generateStatement has built the statement
    written,     \* the files generateStatement created, with their content
    createErr,   \* generateStatement logged an os.Create or Encode error
    \* ---- jSONFileStreamer and jsonlogger (pipeline_logger.go, part_000) ----
    seqHeap,     \* the sequence objects allocated by new(sequence): their values
    loggers,     \* the jsonlogger objects Stream has returned, in order
    store,       \* the records added to the streamer's jsons.FileWriter
    lastWrite,   \* history: the last Write call and what it returned
    writes,      \* the number of Write calls made
    panicked     \* a nil dereference in Stream ended the process

seqVars  == <<callers, mu, value, cpc, cret>>
execVars == <<pc, steps, compiled, prev, Include, Exclude, resumeAt, stageSteps,
             mat, lookups, execErr, status, exitCode, source, assembled, written,
             createErr>>
logVars  == <<seqHeap, loggers, store, lastWrite, writes, panicked>>
vars     == <<seqVars, execVars, logVars>>

(***************************************************************************)
(* Bounds                                                                  *)
(***************************************************************************)
MaxCallers == 3
MaxSteps == 3
MaxStreams == 2
MaxWrites == 1
MaxLen == 3

(***************************************************************************)
(* sequence: a mutex and an int.                                           *)
(***************************************************************************)
Goroutines == 1..callers

\* The goroutine that calls curr().
Observer == callers + 1

\* Variant of CanLock: a lock that excludes nobody.
LockNoExclusion(g) == TRUE

\* s.Lock(): blocks until the mutex is free.
CanLock(g) == mu = 0

InitSeq ==
    /\ callers \in 0..MaxCallers
    /\ mu = 0
    /\ value = 0
    /\ cpc = [g \in 1..(callers + 1) |-> "call"]
    /\ cret = [g \in 1..(callers + 1) |-> 0]

\* next(): s.Lock()
NextLock(g) ==
    /\ g \in Goroutines
    /\ cpc[g] = "call"
    /\ CanLock(g)
    /\ mu' = g
    /\ cpc' = [cpc EXCEPT ![g] = "locked"]
    /\ UNCHANGED <<callers, value, cret>>
    /\ UNCHANGED <<execVars, logVars>>

\* next(): s.value++
NextIncr(g) ==
    /\ g \in Goroutines
    /\ cpc[g] = "locked"
    /\ value' = value + 1
    /\ cpc' = [cpc EXCEPT ![g] = "incremented"]
    /\ UNCHANGED <<callers, mu, cret>>
    /\ UNCHANGED <<execVars, logVars>>

\* next(): i := s.value
NextRead(g) ==
    /\ g \in Goroutines
    /\ cpc[g] = "incremented"
    /\ cret' = [cret EXCEPT ![g] = value]
    /\ cpc' = [cpc EXCEPT ![g] = "read"]
    /\ UNCHANGED <<callers, mu, value>>
    /\ UNCHANGED <<execVars, logVars>>

\* next(): s.Unlock(); return i
NextUnlock(g) ==
    /\ g \in Goroutines
    /\ cpc[g] = "read"
    /\ mu' = 0
    /\ cpc' = [cpc EXCEPT ![g] = "returned"]
    /\ UNCHANGED <<callers, value, cret>>
    /\ UNCHANGED <<execVars, logVars>>

\* curr(): s.Lock(); i := s.value
CurrLock ==
    /\ cpc[Observer] = "call"
    /\ CanLock(Observer)
    /\ mu' = Observer
    /\ cret' = [cret EXCEPT ![Observer] = value]
    /\ cpc' = [cpc EXCEPT ![Observer] = "read"]
    /\ UNCHANGED <<callers, value>>
    /\ UNCHANGED <<execVars, logVars>>

\* curr(): s.Unlock(); return i. The observer may call curr() again.
CurrUnlock ==
    /\ cpc[Observer] = "read"
    /\ mu' = 0
    /\ cpc' = [cpc EXCEPT ![Observer] = "call"]
    /\ UNCHANGED <<callers, value, cret>>
    /\ UNCHANGED <<execVars, logVars>>

NextSeq ==
    \/ \E g \in Goroutines : NextLock(g)
    \/ \E g \in Goroutines : NextIncr(g)
    \/ \E g \in Goroutines : NextRead(g)
    \/ \E g \in Goroutines : NextUnlock(g)
    \/ CurrLock
    \/ CurrUnlock

(***************************************************************************)
(* exec: the compiled steps and the selection directives.                  *)
(***************************************************************************)
Names == {"clone", "build", "test", "deploy"}

\* runtime.RunOnSuccess (the compiler's default) and runtime.RunNever (the
\* constant the selection phases assign, and the compiler's policy for a
\* step whose conditions do not match).
RunOnSuccess == "on-success"
RunNever == "never"
RunPolicies == {RunOnSuccess, RunNever}

\* The image each step declares; build and test share one.
ImageOf(name) ==
    CASE name = "clone" -> "drone/git"
      [] name = "deploy" -> "alpine"
      [] OTHER -> "golang"

\* The names other than clone, which the code only ever compares for
\* equality: they are interchangeable, so the step lists below take them in
\* this one order, with clone at any place or absent.
OtherNames == <<"build", "test", "deploy">>

InsertAt(l, p, x) == SubSeq(l, 1, p - 1) \o <<x>> \o SubSeq(l, p, Len(l))

\* Step lists with pairwise distinct names (the linter rejects duplicates),
\* of at most MaxSteps steps.
StepNameLists ==
    LET bases == {SubSeq(OtherNames, 1, m) : m \in 0..Len(OtherNames)}
        all == bases \cup
               UNION {{InsertAt(b, p, "clone") : p \in 1..(Len(b) + 1)} : b \in bases}
    IN {l \in all : Len(l) <= MaxSteps}

NamesOf(s) == [i \in DOMAIN s |-> s[i].Name]

PoliciesOf(s) == [i \in DOMAIN s |-> s[i].RunPolicy]

MarkNever(step) == [step EXCEPT !.RunPolicy = RunNever]

\* Variant of IncludePhase: clone is filtered like any other step.
IncludePhaseNoCloneCheck(s, inc) ==
    IF inc # {}
    THEN [i \in DOMAIN s |-> IF s[i].Name \in inc THEN s[i] ELSE MarkNever(s[i])]
    ELSE s

\* exec.go 288-301: with a non-empty include list, every step but clone whose
\* name is not in the list gets RunNever.
IncludePhase(s, inc) ==
    IF inc # {}
    THEN [i \in DOMAIN s |->
            IF s[i].Name = "clone" THEN s[i]
            ELSE IF s[i].Name \in inc THEN s[i]
            ELSE MarkNever(s[i])]
    ELSE s

\* Variant of ExcludePhase: the exclude list is read only when there is no
\* include list.
ExcludePhaseUnlessInclude(s, exc) ==
    IF exc # {} /\ Include = {}
    THEN [i \in DOMAIN s |->
            IF s[i].Name = "clone" THEN s[i]
            ELSE IF s[i].Name \in exc THEN MarkNever(s[i])
            ELSE s[i]]
    ELSE s

\* Variant of ExcludePhase: clone is excluded like any other step.
ExcludePhaseNoCloneCheck(s, exc) ==
    IF exc # {}
    THEN [i \in DOMAIN s |-> IF s[i].Name \in exc THEN MarkNever(s[i]) ELSE s[i]]
    ELSE s

\* exec.go 303-316: with a non-empty exclude list, every step but clone whose
\* name is in the list gets RunNever.
ExcludePhase(s, exc) ==
    IF exc # {}
    THEN [i \in DOMAIN s |->
            IF s[i].Name = "clone" THEN s[i]
            ELSE IF s[i].Name \in exc THEN MarkNever(s[i])
            ELSE s[i]]
    ELSE s

\* The index at which the resume-at loop breaks: the first step named r, or
\* one past the end when no step is.
BreakIndex(s, r) ==
    IF \E i \in DOMAIN s : s[i].Name = r
    THEN CHOOSE i \in DOMAIN s :
            /\ s[i].Name = r
            /\ \A j \in 1..(i - 1) : s[j].Name # r
    ELSE Len(s) + 1

\* Variant of ResumePhase: clone is not skipped.
ResumePhaseNoCloneCheck(s, r, exc) ==
    IF r # ""
    THEN [i \in DOMAIN s |->
            IF i >= BreakIndex(s, r) THEN s[i]
            ELSE IF s[i].Name \in exc THEN MarkNever(s[i])
            ELSE s[i]]
    ELSE s

\* Variant of ResumePhase: every step before the resume-at step but clone
\* gets RunNever, excluded or not.
ResumePhaseAllEarlier(s, r, exc) ==
    IF r # ""
    THEN [i \in DOMAIN s |->
            IF i >= BreakIndex(s, r) THEN s[i]
            ELSE IF s[i].Name = "clone" THEN s[i]
            ELSE MarkNever(s[i])]
    ELSE s

\* exec.go 318-333: with a resume-at name, the steps before the one so named
\* are scanned; clone is skipped, and a step named in the exclude list gets
\* RunNever (the inner continue only ends the inner loop's iteration).
ResumePhase(s, r, exc) ==
    IF r # ""
    THEN [i \in DOMAIN s |->
            IF i >= BreakIndex(s, r) THEN s[i]
            ELSE IF s[i].Name = "clone" THEN s[i]
            ELSE IF s[i].Name \in exc THEN MarkNever(s[i])
            ELSE s[i]]
    ELSE s

\* Variant of Roster: a roster entry is numbered by its step's place in the
\* compiled list.
RECURSIVE RosterCompileOrdinal(_, _)
RosterCompileOrdinal(s, acc) ==
    IF s = <<>> THEN acc
    ELSE IF Head(s).RunPolicy = RunNever THEN RosterCompileOrdinal(Tail(s), acc)
    ELSE RosterCompileOrdinal(Tail(s),
            Append(acc, [Number |-> Len(steps) - Len(Tail(s)), Name |-> Head(s).Name]))

\* Variant of Roster: RunNever steps get a roster entry too.
RECURSIVE RosterAll(_, _)
RosterAll(s, acc) ==
    IF s = <<>> THEN acc
    ELSE RosterAll(Tail(s), Append(acc, [Number |-> Len(acc) + 1, Name |-> Head(s).Name]))

\* exec.go 335-347: one drone.Step per step whose policy is not RunNever,
\* numbered len(commy.Stage.Steps) + 1 as it is appended.
RECURSIVE Roster(_, _)
Roster(s, acc) ==
    IF s = <<>> THEN acc
    ELSE IF Head(s).RunPolicy = RunNever THEN Roster(Tail(s), acc)
    ELSE Roster(Tail(s), Append(acc, [Number |-> Len(acc) + 1, Name |-> Head(s).Name]))

\* drone.Status* as the engine can leave them in state.Stage.Status.
StatusPending == "pending"
StatusPassing == "success"
StatusFailing == "failure"
StatusKilled == "killed"
StatusError == "error"
FinalStatuses == {StatusPassing, StatusFailing, StatusKilled, StatusError}

\* crane.Digest(image): the digest, or "" with an error.
DigestResult(image, ok) == IF ok THEN <<"sha256", image>> ELSE ""

Material(step, dig) ==
    [URI |-> <<"pkg:", step.Image, "@", dig>>, Digest |-> [sha256 |-> dig]]

\* Variant of materials: a step whose lookup fails gets no entry.
RECURSIVE MaterialsSkipFailed(_, _)
MaterialsSkipFailed(s, ok) ==
    IF s = <<>> THEN <<>>
    ELSE IF Head(ok)
         THEN <<Material(Head(s), DigestResult(Head(s).Image, TRUE))>>
              \o MaterialsSkipFailed(Tail(s), Tail(ok))
         ELSE MaterialsSkipFailed(Tail(s), Tail(ok))

\* exec.go 465-477: one material per step of spec.Steps, the lookup's error
\* dropped. ok[i] tells whether the lookup of step i's image succeeds.
materials(s, ok) ==
    [i \in DOMAIN s |-> Material(s[i], DigestResult(s[i].Image, ok[i]))]

\* The status switch of exec leaves killed runs out.
ExitPathIgnoresKilled(e, st) ==
    IF e THEN "fatal"
    ELSE IF st \in {StatusError, StatusFailing} THEN "exit"
    ELSE "statement"

\* exec.go 385-409 and 78-83: where exec goes once Execer.Exec has returned.
\* "fatal": the error is returned to Command.Action, whose log.Fatalln exits
\* with 1; "exit": os.Exit(1) on a final status of error, failing or killed;
\* "statement": generateStatement is called.
ExitPath(e, st) ==
    IF e THEN "fatal"
    ELSE IF st \in {StatusError, StatusFailing, StatusKilled} THEN "exit"
    ELSE "statement"

\* A path is the sequence of its elements; <<>> is ".".
\* path.Dir
Dir(p) == SubSeq(p, 1, Len(p) - 1)

\* path.Base
Base(p) == p[Len(p)]

\* path.Join of a directory and two elements.
Join(d, a, b) == d \o <<a>> \o <<b>>

\* exec.go 445-447: path.Join(path.Dir(pf), path.Base(pf), "-provenance.json")
ProvenancePath(pf) == Join(Dir(pf), Base(pf), "-provenance.json")

\* exec.go 153: ioutil.ReadFile(commy.Source) has succeeded, so the source is
\* a regular file and the directories it lies in exist.
ExistingDirs(pf) == {SubSeq(pf, 1, k) : k \in 0..(Len(pf) - 1)}

\* exec.go 448: os.Create(fp) needs fp's parent to be a directory.
CanCreate(fp, pf) == Dir(fp) \in ExistingDirs(pf)

\* The pipeline files exec is run on: .drone.yml in the working directory
\* (exec.go 74) and a file in a subdirectory.
DefaultSource == <<".drone.yml">>
Sources == {DefaultSource, <<"ci", "build.yml">>}

NotAssembled ==
    /\ assembled = FALSE
    /\ written = <<>>
    /\ createErr = FALSE

InitExec ==
    /\ \E l \in StepNameLists : \E p \in [DOMAIN l -> RunPolicies] :
          steps = [i \in DOMAIN l |->
                      [Name |-> l[i], RunPolicy |-> p[i], Image |-> ImageOf(l[i])]]
    /\ compiled = steps
    /\ prev = steps
    /\ Include \in SUBSET Names
    /\ Exclude \in SUBSET Names
    /\ resumeAt \in Names \cup {""}
    /\ stageSteps = <<>>
    /\ mat = <<>>
    /\ lookups = <<>>
    /\ execErr = FALSE
    /\ status = StatusPending
    /\ exitCode = <<>>
    /\ source = DefaultSource
    /\ NotAssembled
    /\ pc = "include"

\* Runs without selection directives, on each of the pipeline files.
InitProvenance ==
    /\ \E l \in StepNameLists : \E p \in [DOMAIN l -> RunPolicies] :
          steps = [i \in DOMAIN l |->
                      [Name |-> l[i], RunPolicy |-> p[i], Image |-> ImageOf(l[i])]]
    /\ compiled = steps
    /\ prev = steps
    /\ Include = {}
    /\ Exclude = {}
    /\ resumeAt = ""
    /\ stageSteps = <<>>
    /\ mat = <<>>
    /\ lookups = <<>>
    /\ execErr = FALSE
    /\ status = StatusPending
    /\ exitCode = <<>>
    /\ source \in Sources
    /\ NotAssembled
    /\ pc = "include"

\* exec.go 286-301
SelectInclude ==
    /\ pc = "include"
    /\ prev' = steps
    /\ steps' = IncludePhase(steps, Include)
    /\ pc' = "exclude"
    /\ UNCHANGED <<compiled, Include, Exclude, resumeAt, stageSteps, mat, lookups,
                   execErr, status, exitCode, source, assembled, written, createErr>>
    /\ UNCHANGED <<seqVars, logVars>>

\* exec.go 302-316
SelectExclude ==
    /\ pc = "exclude"
    /\ prev' = steps
    /\ steps' = ExcludePhase(steps, Exclude)
    /\ pc' = "resume"
    /\ UNCHANGED <<compiled, Include, Exclude, resumeAt, stageSteps, mat, lookups,
                   execErr, status, exitCode, source, assembled, written, createErr>>
    /\ UNCHANGED <<seqVars, logVars>>

\* exec.go 317-333
SelectResume ==
    /\ pc = "resume"
    /\ prev' = steps
    /\ steps' = ResumePhase(steps, resumeAt, Exclude)
    /\ pc' = "roster"
    /\ UNCHANGED <<compiled, Include, Exclude, resumeAt, stageSteps, mat, lookups,
                   execErr, status, exitCode, source, assembled, written, createErr>>
    /\ UNCHANGED <<seqVars, logVars>>

\* exec.go 334-347
BuildRoster ==
    /\ pc = "roster"
    /\ stageSteps' = Roster(steps, stageSteps)
    /\ pc' = "exec"
    /\ UNCHANGED <<steps, compiled, prev, Include, Exclude, resumeAt, mat, lookups,
                   execErr, status, exitCode, source, assembled, written, createErr>>
    /\ UNCHANGED <<seqVars, logVars>>

\* exec.go 385-409: the engine executes the steps. An error is returned to
\* Command.Action, whose log.Fatalln exits with 1; a final status of error,
\* failing or killed exits with 1; otherwise generateStatement is called.
Exec ==
    /\ pc = "exec"
    /\ \E e \in BOOLEAN, st \in FinalStatuses :
          /\ execErr' = e
          /\ status' = st
          /\ pc' = ExitPath(e, st)
          /\ IF ExitPath(e, st) = "statement"
             THEN UNCHANGED exitCode
             ELSE exitCode' = <<1>>
    /\ UNCHANGED <<steps, compiled, prev, Include, Exclude, resumeAt, stageSteps,
                   mat, lookups, source, assembled, written, createErr>>
    /\ UNCHANGED <<seqVars, logVars>>

\* exec.go 408-409, 418-457: generateStatement assembles the statement with
\* its materials, creates the file at ProvenancePath(commy.Source) and
\* encodes the statement into it; an error of os.Create or of Encode is
\* logged and nothing is returned. exec then returns nil: exit code 0.
\* createOk and encodeOk are the I/O outcomes other than a missing parent
\* directory.
GenerateStatement ==
    /\ pc = "statement"
    /\ \E ok \in [DOMAIN steps -> BOOLEAN] :
          /\ mat' = materials(steps, ok)
          /\ lookups' = ok
    /\ assembled' = TRUE
    /\ LET fp == ProvenancePath(source) IN
          \E createOk \in BOOLEAN, encodeOk \in BOOLEAN :
             IF CanCreate(fp, source) /\ createOk
             THEN /\ written' = Append(written,
                                       [path |-> fp,
                                        content |-> IF encodeOk THEN <<mat'>> ELSE <<>>])
                  /\ createErr' = ~encodeOk
             ELSE /\ UNCHANGED written
                  /\ createErr' = TRUE
    /\ pc' = "done"
    /\ exitCode' = <<0>>
    /\ UNCHANGED <<steps, compiled, prev, Include, Exclude, resumeAt, stageSteps,
                   execErr, status, source>>
    /\ UNCHANGED <<seqVars, logVars>>

NextExec ==
    \/ SelectInclude
    \/ SelectExclude
    \/ SelectResume
    \/ BuildRoster
    \/ Exec
    \/ GenerateStatement

(***************************************************************************)
(* jSONFileStreamer and jsonlogger.                                        *)
(***************************************************************************)
\* The bytes of a write: a letter and the line terminator.
Bytes == {"a", "\n"}

Inputs == UNION {[1..k -> Bytes] : k \in 0..MaxLen}

\* strings.TrimSuffix(s, "\n")
TrimSuffix(s) ==
    IF Len(s) > 0 /\ s[Len(s)] = "\n" THEN SubSeq(s, 1, Len(s) - 1) ELSE s

\* strings.Split(s, "\n"): the parts between terminators, at least one.
RECURSIVE Split(_, _)
Split(s, cur) ==
    IF s = <<>> THEN <<cur>>
    ELSE IF Head(s) = "\n" THEN <<cur>> \o Split(Tail(s), <<>>)
    ELSE Split(Tail(s), Append(cur, Head(s)))

\* Variant of split: the trailing terminator is not trimmed.
splitNoTrim(b) == Split(b, <<>>)

\* part_000 38-42
split(b) == Split(TrimSuffix(b), <<>>)

\* pipeline_logger.go 29-34: newStreamer allocates two sequences.
streamerSeq == 1
streamerCol == 2

SeqRefs == 1..(2 + MaxStreams)

\* pipeline_logger.go 39-45: the first roster entry of that name, or 0 (nil).
Lookup(roster, name) ==
    IF \E i \in DOMAIN roster : roster[i].Name = name
    THEN CHOOSE i \in DOMAIN roster :
            /\ roster[i].Name = name
            /\ \A j \in 1..(i - 1) : roster[j].Name # name
    ELSE 0

\* Variant of NewLogger: each jsonlogger gets a sequence of its own.
NewLoggerOwnSeq(c) ==
    [name |-> c.Name, number |-> c.Number, seq |-> 2 + Len(loggers) + 1]

\* pipeline_logger.go 46-51: the jsonlogger holds the streamer's writer and
\* the streamer's seq.
NewLogger(c) ==
    [name |-> c.Name, number |-> c.Number, seq |-> streamerSeq]

\* part_000 21-24: the record Write adds for one part.
Record(j, part) ==
    [stepNumber |-> j.number, stepName |-> j.name, line |-> part]

NoWrite == [logger |-> 0, b |-> <<>>, pre |-> 0, fail |-> 0, n |-> 0, err |-> FALSE]

\* Variant of Persisted: the loop goes on after the Add that fails.
PersistedSkipsFailed(parts, failAt) ==
    IF failAt = 0 THEN parts
    ELSE SubSeq(parts, 1, failAt - 1) \o SubSeq(parts, failAt + 1, Len(parts))

\* part_000 20-28: the parts Write has added when it returns: all of them,
\* or those before the one whose Add failed.
Persisted(parts, failAt) ==
    IF failAt = 0 THEN parts ELSE SubSeq(parts, 1, failAt - 1)

IdleLog ==
    /\ seqHeap = <<>>
    /\ loggers = <<>>
    /\ store = <<>>
    /\ lastWrite = NoWrite
    /\ writes = 0
    /\ panicked = FALSE

\* The step names of the stage the streamer serves, in declared order.
LogStepNames == <<"clone", "build">>

\* A run at the start of execution: the roster built from a compiled list,
\* and a streamer just constructed.
InitLog ==
    /\ \E p \in [DOMAIN LogStepNames -> RunPolicies] :
          steps = [i \in DOMAIN LogStepNames |->
                      [Name |-> LogStepNames[i], RunPolicy |-> p[i],
                       Image |-> ImageOf(LogStepNames[i])]]
    /\ compiled = steps
    /\ prev = steps
    /\ Include = {}
    /\ Exclude = {}
    /\ resumeAt = ""
    /\ stageSteps = Roster(steps, <<>>)
    /\ mat = <<>>
    /\ lookups = <<>>
    /\ execErr = FALSE
    /\ status = StatusPending
    /\ exitCode = <<>>
    /\ source = DefaultSource
    /\ NotAssembled
    /\ pc = "executing"
    /\ seqHeap = [r \in SeqRefs |-> 0]
    /\ loggers = <<>>
    /\ store = <<>>
    /\ lastWrite = NoWrite
    /\ writes = 0
    /\ panicked = FALSE

\* pipeline_logger.go 38-52: Stream(ctx, state, name)
Stream(name) ==
    /\ pc = "executing"
    /\ ~panicked
    /\ Len(loggers) < MaxStreams
    /\ LET c == Lookup(stageSteps, name) IN
          IF c = 0
          THEN /\ panicked' = TRUE
               /\ UNCHANGED loggers
          ELSE /\ loggers' = Append(loggers, NewLogger(stageSteps[c]))
               /\ UNCHANGED panicked
    /\ UNCHANGED <<seqHeap, store, lastWrite, writes>>
    /\ UNCHANGED <<seqVars, execVars>>

\* part_000 18-30: Write(b). failAt = 0: every Add succeeds; failAt = i: the
\* i-th Add returns an error.
Write(l, b, failAt) ==
    /\ pc = "executing"
    /\ ~panicked
    /\ l \in DOMAIN loggers
    /\ writes < MaxWrites
    /\ LET parts == split(b)
           kept == Persisted(parts, failAt)
       IN /\ failAt \in 0..Len(parts)
          /\ store' = store \o [i \in DOMAIN kept |-> Record(loggers[l], kept[i])]
          /\ lastWrite' = [logger |-> l, b |-> b, pre |-> Len(store),
                           fail |-> failAt, n |-> Len(b), err |-> failAt # 0]
    /\ writes' = writes + 1
    /\ UNCHANGED <<seqHeap, loggers, panicked>>
    /\ UNCHANGED <<seqVars, execVars>>

\* part_000 33-36: Close() logs and returns nil; the stream stays usable.
Close(l) ==
    /\ pc = "executing"
    /\ ~panicked
    /\ l \in DOMAIN loggers
    /\ UNCHANGED <<seqVars, execVars, logVars>>

NextLog ==
    \/ \E name \in Names : Stream(name)
    \/ \E l \in 1..MaxStreams : Close(l)
    \/ \E l \in 1..MaxStreams : \E b \in Inputs : \E failAt \in 0..(MaxLen + 1) :
          Write(l, b, failAt)

IdleSeq ==
    /\ callers = 0
    /\ mu = 0
    /\ value = 0
    /\ cpc = <<"call">>
    /\ cret = <<0>>

IdleExec ==
    /\ pc = "idle"
    /\ steps = <<>>
    /\ compiled = <<>>
    /\ prev = <<>>
    /\ Include = {}
    /\ Exclude = {}
    /\ resumeAt = ""
    /\ stageSteps = <<>>
    /\ mat = <<>>
    /\ lookups = <<>>
    /\ execErr = FALSE
    /\ status = StatusPending
    /\ exitCode = <<>>
    /\ source = DefaultSource
    /\ NotAssembled

Init == InitExec /\ IdleSeq /\ IdleLog

Next == NextExec

Spec == Init /\ [][Next]_vars

InitSeqOnly == InitSeq /\ IdleExec /\ IdleLog

SpecSeq == InitSeqOnly /\ [][NextSeq]_vars

InitLogOnly == InitLog /\ IdleSeq

SpecLog == InitLogOnly /\ [][NextLog]_vars

InitProvenanceOnly == InitProvenance /\ IdleSeq /\ IdleLog

SpecProvenance == InitProvenanceOnly /\ [][NextExec]_vars

(***************************************************************************)
(* Properties                                                              *)
(***************************************************************************)
AllReturned == \A g \in Goroutines : cpc[g] = "returned"

\* C1: N concurrent next() calls on a counter starting at 0 return pairwise
\* different values, the returned values are exactly 1..N, and the counter
\* is N after all of them (also as curr() reads it).
C1_NextReturnsEachOnce ==
    /\ \A g, h \in Goroutines :
          (g # h /\ cpc[g] = "returned" /\ cpc[h] = "returned") => cret[g] # cret[h]
    /\ AllReturned =>
          /\ {cret[g] : g \in Goroutines} = 1..callers
          /\ value = callers
          /\ cpc[Observer] = "read" => cret[Observer] = callers

C1_Witness ==
    /\ callers >= 3
    /\ AllReturned
    /\ cpc[Observer] = "read"
    /\ cret[1] = 3
    /\ cret[3] = 1

\* The selection phases have all run.
AfterSelection == pc \in {"roster", "exec", "fatal", "exit", "statement", "done"}

\* Step i is declared before the step named resume-at.
BeforeResumePoint(i) ==
    \E j \in DOMAIN steps : j > i /\ steps[j].Name = resumeAt

\* C2: with a resume-at name that names a step, the resume-at phase leaves
\* RunNever the steps before that step that are not clone and are named in
\* the exclude set, and changes no other step: not the resume-at step, not
\* a later one, not clone and not a step outside the exclude set.
C2_ResumeAtPhase ==
    (/\ pc = "roster"
     /\ resumeAt # ""
     /\ \E j \in DOMAIN steps : steps[j].Name = resumeAt)
    => \A i \in DOMAIN steps :
          IF /\ BeforeResumePoint(i)
             /\ steps[i].Name # "clone"
             /\ steps[i].Name \in Exclude
          THEN steps[i].RunPolicy = RunNever
          ELSE steps[i] = prev[i]

\* resumeAt = test, exclude = {build} over [clone, build, test] with a step
\* outside the exclude set before the resume point and one after it.
C2_Witness ==
    /\ pc = "roster"
    /\ resumeAt = "test"
    /\ Exclude = {"build"}
    /\ Include = {}
    /\ NamesOf(steps) = <<"build", "test", "deploy">>
    /\ PoliciesOf(compiled) = <<RunOnSuccess, RunOnSuccess, RunOnSuccess>>
    /\ PoliciesOf(steps) = <<RunNever, RunOnSuccess, RunOnSuccess>>

\* C3: with a non-empty include set and neither exclude set nor resume-at,
\* after selection every step but clone whose name is not in the include
\* set is RunNever, and clone and the included steps are as compiled.
C3_IncludeOnly ==
    (AfterSelection /\ Include # {} /\ Exclude = {} /\ resumeAt = "")
    => \A i \in DOMAIN steps :
          IF steps[i].Name # "clone" /\ steps[i].Name \notin Include
          THEN steps[i].RunPolicy = RunNever
          ELSE steps[i] = compiled[i]

C3_Witness ==
    /\ AfterSelection
    /\ Include = {"build"}
    /\ Exclude = {}
    /\ resumeAt = ""
    /\ NamesOf(steps) = <<"clone", "build", "test">>
    /\ PoliciesOf(compiled) = <<RunOnSuccess, RunOnSuccess, RunOnSuccess>>
    /\ PoliciesOf(steps) = <<RunOnSuccess, RunOnSuccess, RunNever>>

\* C4: with a non-empty exclude set, an empty include set and no resume-at,
\* after selection every step but clone whose name is in the exclude set is
\* RunNever, and every other step is as compiled.
C4_ExcludeOnly ==
    (AfterSelection /\ Exclude # {} /\ Include = {} /\ resumeAt = "")
    => \A i \in DOMAIN steps :
          IF steps[i].Name # "clone" /\ steps[i].Name \in Exclude
          THEN steps[i].RunPolicy = RunNever
          ELSE steps[i] = compiled[i]

C4_Witness ==
    /\ AfterSelection
    /\ Exclude = {"test", "clone"}
    /\ Include = {}
    /\ resumeAt = ""
    /\ NamesOf(steps) = <<"clone", "build", "test">>
    /\ PoliciesOf(compiled) = <<RunOnSuccess, RunOnSuccess, RunOnSuccess>>
    /\ PoliciesOf(steps) = <<RunOnSuccess, RunOnSuccess, RunNever>>

\* C5: with non-empty include and exclude sets, a step other than clone that
\* is named in both ends selection RunNever, whatever resume-at is.
C5_ExcludeOverridesInclude ==
    (AfterSelection /\ Include # {} /\ Exclude # {})
    => \A i \in DOMAIN steps :
          (/\ steps[i].Name # "clone"
           /\ steps[i].Name \in Include
           /\ steps[i].Name \in Exclude)
          => steps[i].RunPolicy = RunNever

C5_Witness ==
    /\ AfterSelection
    /\ Include = {"build", "test"}
    /\ Exclude = {"test"}
    /\ NamesOf(steps) = <<"clone", "build", "test">>
    /\ PoliciesOf(compiled) = <<RunOnSuccess, RunOnSuccess, RunOnSuccess>>
    /\ PoliciesOf(steps) = <<RunOnSuccess, RunOnSuccess, RunNever>>

\* C6: whatever the include set, the exclude set and resume-at are, the step
\* named clone has after selection the policy it was compiled with.
C6_CloneUntouched ==
    AfterSelection
    => \A i \in DOMAIN steps :
          steps[i].Name = "clone" => steps[i].RunPolicy = compiled[i].RunPolicy

\* clone named in the exclude set, absent from a non-empty include set and
\* declared before the resume-at step.
C6_Witness ==
    /\ AfterSelection
    /\ Include = {"build"}
    /\ Exclude = {"clone"}
    /\ resumeAt = "test"
    /\ NamesOf(steps) = <<"clone", "build", "test">>
    /\ PoliciesOf(compiled) = <<RunOnSuccess, RunOnSuccess, RunOnSuccess>>
    /\ steps[1].RunPolicy = RunOnSuccess

\* The roster has been built.
AfterRoster == pc \in {"exec", "fatal", "exit", "statement", "done"}

RECURSIVE Running(_)
Running(s) ==
    IF s = <<>> THEN <<>>
    ELSE IF Head(s).RunPolicy # RunNever
         THEN <<Head(s).Name>> \o Running(Tail(s))
         ELSE Running(Tail(s))

\* C7 as the specification states it: after selection the compiled list
\* keeps its order and its RunNever steps, and both the stage step roster
\* and the materials hold one entry per compiled step, in compiled order.
C7_RosterSeesFullList ==
    /\ AfterRoster =>
          /\ NamesOf(steps) = NamesOf(compiled)
          /\ NamesOf(stageSteps) = NamesOf(compiled)
    /\ pc = "done" => Len(mat) = Len(compiled)

\* C7 amended: after selection the compiled list keeps its order and its
\* RunNever steps, and the materials hold one entry per compiled step; the
\* stage step roster holds only the steps that are not RunNever, in
\* compiled order.
C7_StepsKeptRosterFiltered ==
    /\ AfterRoster =>
          /\ NamesOf(steps) = NamesOf(compiled)
          /\ NamesOf(stageSteps) = Running(steps)
    /\ pc = "done" =>
          /\ Len(mat) = Len(compiled)
          /\ \A i \in DOMAIN mat : mat[i].URI[2] = compiled[i].Image

C7_Witness ==
    /\ pc = "done"
    /\ Exclude = {"build"}
    /\ NamesOf(steps) = <<"clone", "build", "test">>
    /\ PoliciesOf(compiled) = <<RunOnSuccess, RunOnSuccess, RunOnSuccess>>
    /\ PoliciesOf(steps) = <<RunOnSuccess, RunNever, RunOnSuccess>>
    /\ NamesOf(stageSteps) = <<"clone", "test">>
    /\ Len(mat) = 3

\* The last Write call returned no error.
WroteAll == lastWrite.logger # 0 /\ ~lastWrite.err

\* The records the last Write call added.
Added == SubSeq(store, lastWrite.pre + 1, Len(store))

\* The number of lines of a non-empty input: its terminators, and one more
\* when its last byte is not a terminator.
LineCount(b) ==
    Cardinality({i \in DOMAIN b : b[i] = "\n"})
    + (IF b[Len(b)] = "\n" THEN 0 ELSE 1)

\* The lines of records, each followed by a terminator.
RECURSIVE Terminated(_)
Terminated(recs) ==
    IF recs = <<>> THEN <<>>
    ELSE Head(recs).line \o <<"\n">> \o Terminated(Tail(recs))

\* The added records are the input's lines, in input order, each tagged
\* with the number and the name of the stream's step.
AddedAreTheLines ==
    LET b == lastWrite.b
        j == loggers[lastWrite.logger]
    IN /\ Len(Added) = LineCount(b)
       /\ Terminated(Added) = (IF b[Len(b)] = "\n" THEN b ELSE b \o <<"\n">>)
       /\ \A i \in DOMAIN Added :
             /\ Added[i].stepNumber = j.number
             /\ Added[i].stepName = j.name
       /\ \E c \in DOMAIN stageSteps :
             stageSteps[c].Name = j.name /\ stageSteps[c].Number = j.number

\* C8 as the specification states it: a first write of k lines, with or
\* without a trailing terminator, adds k records in input order, tagged with
\* step number and name, and with the ordinals 1..k drawn from the stream's
\* counter, which therefore stands at k after the write.
C8_RecordsCarryOrdinals ==
    (WroteAll /\ writes = 1 /\ lastWrite.b # <<>>)
    => /\ AddedAreTheLines
       /\ seqHeap[loggers[lastWrite.logger].seq] = LineCount(lastWrite.b)

\* C8 amended: a write of k >= 1 lines, with or without a trailing
\* terminator, adds k records in input order, each made of the step's
\* number, the step's name and the line; no record carries an ordinal and
\* the stream's counter is not advanced. An empty write adds one record
\* with an empty line.
C8_WriteAddsOneRecordPerLine ==
    WroteAll
    => /\ lastWrite.b # <<>> => AddedAreTheLines
       /\ lastWrite.b = <<>> => (Len(Added) = 1 /\ Added[1].line = <<>>)
       /\ \A i \in DOMAIN Added :
             DOMAIN Added[i] = {"stepNumber", "stepName", "line"}
       /\ seqHeap[loggers[lastWrite.logger].seq] = 0
       /\ lastWrite.n = Len(lastWrite.b)

\* "\na\n" written to the stream of build: two lines and a trailing
\* terminator.
C8_Witness ==
    /\ WroteAll
    /\ lastWrite.b = <<"\n", "a", "\n">>
    /\ loggers[lastWrite.logger].name = "build"
    /\ Len(stageSteps) = 2
    /\ Len(Added) = 2
    /\ Added[1] = [stepNumber |-> 2, stepName |-> "build", line |-> <<>>]
    /\ Added[2] = [stepNumber |-> 2, stepName |-> "build", line |-> <<"a">>]

\* C9 as the specification states it: the streams of two different steps
\* hold different counters.
C9_CounterPerStream ==
    \A i, j \in DOMAIN loggers :
        loggers[i].name # loggers[j].name => loggers[i].seq # loggers[j].seq

\* C9 amended: every stream the streamer returns holds the streamer's one
\* seq counter, which is not its col counter, and no opening of a stream
\* and no write advances a counter.
C9_StreamsShareCounter ==
    pc = "executing"
    => /\ \A i \in DOMAIN loggers : loggers[i].seq = streamerSeq
       /\ streamerSeq # streamerCol
       /\ \A r \in SeqRefs : seqHeap[r] = 0

C9_Witness ==
    /\ Len(loggers) = 2
    /\ loggers[1].name = "clone"
    /\ loggers[2].name = "build"
    /\ loggers[1].seq = loggers[2].seq
    /\ WroteAll
    /\ lastWrite.logger = 2
    /\ Len(Added) = 2

\* C10: the materials hold one entry per compiled step, RunNever steps
\* included, in compiled order, and a step whose digest lookup failed has
\* its entry, with the empty string as digest.
C10_MaterialPerStep ==
    pc = "done" =>
        /\ Len(mat) = Len(compiled)
        /\ \A i \in DOMAIN mat :
              /\ mat[i].URI[2] = compiled[i].Image
              /\ mat[i].URI[4] = mat[i].Digest.sha256
              /\ lookups[i] => mat[i].Digest.sha256 = <<"sha256", compiled[i].Image>>
              /\ ~lookups[i] => mat[i].Digest.sha256 = ""

C10_Witness ==
    /\ pc = "done"
    /\ Len(steps) = 3
    /\ compiled[2].RunPolicy = RunOnSuccess
    /\ steps[2].RunPolicy = RunNever
    /\ lookups = <<TRUE, FALSE, TRUE>>
    /\ mat[2].Digest.sha256 = ""
    /\ mat[3].Digest.sha256 # ""

\* exec has ended, by returning or by exiting.
Ended == exitCode # <<>>

\* C11: a run that has reached the execution phase ends with the provenance
\* statement assembled, whatever the engine returned and whatever the final
\* status is.
C11_AssemblyFollowsExecution == Ended => assembled

BadStatus == status \in {StatusError, StatusFailing, StatusKilled}

\* C12 as the specification states it: the exit code is not 0 exactly when
\* the final status is error, failing or killed.
C12_ExitCodeFromStatusOnly == Ended => (exitCode[1] # 0 <=> BadStatus)

\* C12 amended: the exit code is 1 when the engine returned an error or the
\* final status is error, failing or killed, and 0 in every other case; a
\* failure to create or encode the provenance file does not change it.
C12_ExitCodeFromErrorAndStatus ==
    Ended =>
        /\ (execErr \/ BadStatus) => exitCode = <<1>>
        /\ ~(execErr \/ BadStatus) => (exitCode = <<0>> /\ assembled)

\* A passing run whose provenance file could not be created exits with 0.
C12_Witness ==
    /\ pc = "done"
    /\ status = StatusPassing
    /\ ~execErr
    /\ createErr
    /\ exitCode = <<0>>
    /\ Len(steps) = 3

\* C13: after a run on which the statement is assembled, exactly one
\* statement has been serialized to a file, and the parent directory of
\* that file is the directory of the pipeline source file.
C13_StatementNextToSource ==
    (Ended /\ assembled)
    => /\ Len(written) = 1
       /\ written[1].content # <<>>
       /\ Dir(written[1].path) = Dir(source)

\* The lines of an input: the runs of bytes between terminators, the last
\* one with or without a terminator after it.
RECURSIVE Lines(_, _)
Lines(b, cur) ==
    IF b = <<>> THEN (IF cur = <<>> THEN <<>> ELSE <<cur>>)
    ELSE IF Head(b) = "\n" THEN <<cur>> \o Lines(Tail(b), <<>>)
    ELSE Lines(Tail(b), Append(cur, Head(b)))

C15_EarlierStepsSkipped ==
    (AfterSelection /\ resumeAt # "")
    => \A i \in DOMAIN steps :
          (BeforeResumePoint(i) /\ steps[i].Name # "clone")
          => steps[i].RunPolicy = RunNever

\* C16: the resume-at phase changes no step: the steps after the include,
\* exclude and resume-at phases are the steps after the include and exclude
\* phases alone, whether resume-at names a step or not.
C16_ResumeChangesNothing ==
    /\ pc = "roster" => steps = prev
    /\ AfterSelection =>
          PoliciesOf(steps) = PoliciesOf(ExcludePhase(IncludePhase(compiled, Include), Exclude))

\* resume-at names the third step, an excluded step and a step that is not
\* excluded precede it.
C16_Witness ==
    /\ pc = "roster"
    /\ resumeAt = "deploy"
    /\ Exclude = {"build"}
    /\ Include = {}
    /\ NamesOf(steps) = <<"build", "test", "deploy">>
    /\ PoliciesOf(compiled) = <<RunOnSuccess, RunOnSuccess, RunOnSuccess>>
    /\ PoliciesOf(steps) = <<RunNever, RunOnSuccess, RunOnSuccess>>
    /\ steps = prev

\* C17: the roster holds exactly the steps that are not RunNever, in
\* declared order, numbered 1..k by their place in the roster, and looking
\* up the name of a RunNever step in the roster finds no entry.
C17_RosterNumbersSurvivors ==
    AfterRoster
    => /\ NamesOf(stageSteps) = Running(steps)
       /\ \A c \in DOMAIN stageSteps : stageSteps[c].Number = c
       /\ \A i \in DOMAIN steps :
             steps[i].RunPolicy = RunNever => Lookup(stageSteps, steps[i].Name) = 0

\* [clone, build, test] with build RunNever: test is the second roster
\* entry and build has none.
C17_Witness ==
    /\ pc = "exec"
    /\ NamesOf(steps) = <<"clone", "build", "test">>
    /\ PoliciesOf(steps) = <<RunOnSuccess, RunNever, RunOnSuccess>>
    /\ stageSteps = <<[Number |-> 1, Name |-> "clone"], [Number |-> 2, Name |-> "test"]>>
    /\ Lookup(stageSteps, "build") = 0

====
